---- MODULE Spec2Model ----
(***************************************************************************)
(* A model of the 384-bin routing harness (tools/bin_harness_384.py), of   *)
(* the puzzle-state identity module (tools/msq_state.py) and of the        *)
(* telemetry log sink (tools/msq_telemetry.py).                            *)
(*                                                                         *)
(* A Python str is a sequence of characters; a character is a TLA+ string  *)
(* naming it.  Literal tags of the source ("CANON", "v1", ...) are kept as *)
(* one indivisible character each.  "FW_a" stands for U+FF41, the          *)
(* fullwidth letter a, which NFKC maps to "a"; " " is whitespace.          *)
(***************************************************************************)
EXTENDS Integers, Sequences, FiniteSets, TLC

(* ------------------------------ bounds -------------------------------- *)

\* Width of the modelled digest in hex digits (SHA-256 has 64).
DigestHexLen == 3
\* Largest ordinary bin count a driver passes.
MaxBins == 3
\* Largest number of units a random or file run streams.
MaxUnits == 2
\* Largest alphabet the exhaustive generator is given.
MaxAlphabet == 4
\* Largest K a driver passes to ranked_bins, and the largest count in the
\* occupancy vectors it passes.
MaxK == 4
MaxCount == 2
\* The instants utc_now_iso() can return are 1..MaxClock.
MaxClock == 2
\* the common value of a uniform occupancy vector is at most this
MaxUniform == 3
\* a uniform occupancy vector has at most this many buckets
MaxUniformBins == 24

(* ------------------------- program constants -------------------------- *)

DEFAULT_N_BINS == 384
DEFAULT_TOP_K == 10
DEFAULT_TOP_MEMBER_LIMIT == 25
RUN_ID_HEX_LEN == 12
DEFAULT_SCRIPT == <<"bin_harness_384">>
DEFAULT_UNIT_TYPE == <<"TRIPLET">>
DEFAULT_CANON_VERSION == <<"v1">>

(* ------------------------------ strings ------------------------------- *)

\* Code points of the characters the model uses; the indivisible literal
\* tags get numbers above the Unicode range.
OrdTable ==
    << <<" ", 32>>, <<",", 44>>, <<"-", 45>>, <<"0", 48>>, <<"1", 49>>,
       <<"2", 50>>, <<"3", 51>>, <<"4", 52>>, <<"5", 53>>, <<"6", 54>>,
       <<"7", 55>>, <<"8", 56>>, <<"9", 57>>, <<"=", 61>>, <<"_", 95>>,
       <<"a", 97>>, <<"b", 98>>, <<"c", 99>>, <<"d", 100>>, <<"e", 101>>,
       <<"f", 102>>, <<"|", 124>>, <<"FW_a", 65345>>,
       <<"A", 65>>, <<"B", 66>>, <<"C", 67>>, <<"D", 68>>, <<"E", 69>>,
       <<"F", 70>>,
       <<"CANON", 1114201>>, <<"v1", 1114202>>,
       <<"bin_harness_384", 1114203>>, <<"TRIPLET", 1114204>>,
       <<"MSQ", 1114205>>, <<"N", 1114206>>, <<"T", 1114207>>,
       <<"R", 1114208>>, <<"G", 1114209>>, <<"L", 1114210>>,
       <<"RANDOM_CONTROL", 1114211>>, <<"HEB_ALL_TRIPLETS_22C3", 1114212>>,
       <<"_N", 1114213>>, <<"_RUN", 1114214>>, <<"DS", 1114215>>,
       <<"RS-MSQ-0001", 1114216>>, <<"random", 1114217>>,
       <<"exhaustive", 1114218>>, <<"file", 1114219>>,
       <<"RUN-BIN384-", 1114220>>, <<"bin_harness_run_v1", 1114221>>,
       <<"msq_event_v1", 1114222>>, <<"RS-2", 1114223>> >>

Ord(c) ==
    LET i == CHOOSE j \in DOMAIN OrdTable : OrdTable[j][1] = c
    IN  OrdTable[i][2]

IsSpace(c) == c = " "

\* unicodedata.normalize("NFKC", .) on one character.
NFKC(c) == IF c = "FW_a" THEN "a" ELSE c

RECURSIVE lstrip(_)
lstrip(s) ==
    IF s # <<>> /\ IsSpace(Head(s)) THEN lstrip(Tail(s)) ELSE s

RECURSIVE rstrip(_)
rstrip(s) ==
    IF s # <<>> /\ IsSpace(s[Len(s)])
    THEN rstrip(SubSeq(s, 1, Len(s) - 1))
    ELSE s

strip(s) == rstrip(lstrip(s))

normalize_text(text) ==
    LET t == strip(text) IN [i \in 1..Len(t) |-> NFKC(t[i])]

_norm(s) ==
    LET t == strip(s) IN [i \in 1..Len(t) |-> NFKC(t[i])]

\* str.join
RECURSIVE Join(_, _)
Join(sep, parts) ==
    IF parts = <<>> THEN <<>>
    ELSE IF Len(parts) = 1 THEN parts[1]
    ELSE parts[1] \o sep \o Join(sep, Tail(parts))

\* str(n) for an int
RECURSIVE StrNat(_)
StrNat(n) ==
    LET d == <<"0", "1", "2", "3", "4", "5", "6", "7", "8", "9">>[(n % 10) + 1]
    IN  IF n < 10 THEN <<d>> ELSE StrNat(n \div 10) \o <<d>>

Str(n) == IF n < 0 THEN <<"-">> \o StrNat(-n) ELSE StrNat(n)

\* Python's < on str: lexicographic by code point.
RECURSIVE StrLess(_, _)
StrLess(s, t) ==
    IF t = <<>> THEN FALSE
    ELSE IF s = <<>> THEN TRUE
    ELSE IF Ord(Head(s)) < Ord(Head(t)) THEN TRUE
    ELSE IF Ord(Head(s)) > Ord(Head(t)) THEN FALSE
    ELSE StrLess(Tail(s), Tail(t))

\* sorted() of a list of str (insertion into a sorted list; stable).
RECURSIVE InsertSorted(_, _)
InsertSorted(x, s) ==
    IF s = <<>> THEN <<x>>
    ELSE IF StrLess(x, Head(s)) THEN <<x>> \o s
    ELSE <<Head(s)>> \o InsertSorted(x, Tail(s))

RECURSIVE SortedStrs(_)
SortedStrs(s) ==
    IF s = <<>> THEN <<>>
    ELSE InsertSorted(s[Len(s)], SortedStrs(SubSeq(s, 1, Len(s) - 1)))

(* ------------------------------ hashing ------------------------------- *)

HexDigits ==
    <<"0", "1", "2", "3", "4", "5", "6", "7",
      "8", "9", "a", "b", "c", "d", "e", "f">>

RECURSIVE Pow16(_)
Pow16(k) == IF k = 0 THEN 1 ELSE 16 * Pow16(k - 1)

\* The digest as a number: a keyless deterministic mixing of the characters,
\* DigestHexLen hex digits wide.
RECURSIVE Digest(_, _)
Digest(h, text) ==
    IF text = <<>> THEN h
    ELSE Digest((h * 31 + Ord(Head(text))) % Pow16(DigestHexLen), Tail(text))

\* Fixed-width lowercase hex, as hexdigest() gives.
RECURSIVE HexOf(_, _)
HexOf(n, width) ==
    IF width = 0 THEN <<>>
    ELSE HexOf(n \div 16, width - 1) \o <<HexDigits[(n % 16) + 1]>>

sha256_hex(text) == HexOf(Digest(7, text), DigestHexLen)

HexValue(c) == (CHOOSE i \in DOMAIN HexDigits : HexDigits[i] = c) - 1

\* int(hashed, 16)
RECURSIVE IntBase16(_)
IntBase16(s) ==
    IF s = <<>> THEN 0
    ELSE 16 * IntBase16(SubSeq(s, 1, Len(s) - 1)) + HexValue(s[Len(s)])

\* str.upper() on a hex string.
Upper(s) ==
    [i \in 1..Len(s) |->
        CASE s[i] = "a" -> "A" [] s[i] = "b" -> "B" [] s[i] = "c" -> "C"
          [] s[i] = "d" -> "D" [] s[i] = "e" -> "E" [] s[i] = "f" -> "F"
          [] OTHER -> s[i]]

\* s[:k] for k >= 0 or k < 0, on any sequence.
SliceTo(s, k) ==
    IF k >= 0
    THEN SubSeq(s, 1, IF k < Len(s) THEN k ELSE Len(s))
    ELSE SubSeq(s, 1, Len(s) + k)

\* Python's a % n for a >= 0: the result has the sign of n.
PyMod(a, n) == IF n > 0 THEN a % n ELSE -((-a) % (-n))

(* ------------------------- bin_harness_384 ---------------------------- *)

canonical_string(dataset_id, script, unit_type, payload, version) ==
    <<"CANON", "|">> \o version \o <<"|">> \o dataset_id \o <<"|">>
        \o script \o <<"|">> \o unit_type \o <<"|">> \o normalize_text(payload)

\* A slip: the quotient taken for the remainder.
BinOfQuotient(hashed, n_bins) == IntBase16(hashed) \div n_bins

\* The bucket index as route_bin computes it.
BinOf(hashed, n_bins) == PyMod(IntBase16(hashed), n_bins)

\* route_bin: <<identifier, bucket>>, or the exception it raises.
route_bin(canon, n_bins) ==
    LET hashed == sha256_hex(canon)
    IN  IF n_bins = 0
        THEN [raised |-> "ZeroDivisionError"]
        ELSE [raised |-> "", id |-> hashed, bin |-> BinOf(hashed, n_bins)]

(* ----------------------- Distribution Analyzer ------------------------ *)

\* An occupancy vector is a function on 0..n-1, as a Python list is indexed.
VecLen(counts) == Cardinality(DOMAIN counts)

RECURSIVE SumTo(_, _)
SumTo(counts, n) == IF n = 0 THEN 0 ELSE SumTo(counts, n - 1) + counts[n - 1]

\* sum(counts)
Sum(counts) == SumTo(counts, VecLen(counts))

\* max(counts) for a non-empty list
Max(counts) ==
    CHOOSE m \in {counts[i] : i \in DOMAIN counts} :
        \A i \in DOMAIN counts : counts[i] <= m

\* A float the model keeps exact: the entropy is the list of its terms
\* -p_i * log(p_i), p_i = count / total, one per non-zero count in bucket
\* order; no term at all is the literal 0.0.
shannon_entropy(counts) ==
    LET total == Sum(counts)
        n == VecLen(counts)
        RECURSIVE Terms(_)
        Terms(i) ==
            IF i = n THEN <<>>
            ELSE IF counts[i] = 0 THEN Terms(i + 1)
            ELSE <<[count |-> counts[i], total |-> total]>> \o Terms(i + 1)
    IN  IF total = 0 THEN <<>> ELSE Terms(0)

\* The value of the modelled entropy is 0.0: every term has p_i = 1, whose
\* logarithm is 0.0.
EntropyIsZero(e) == \A i \in DOMAIN e : e[i].count = e[i].total

\* sorted(counts) for a list of int, ascending, as a 1-indexed sequence.
RECURSIVE InsertInt(_, _)
InsertInt(x, s) ==
    IF s = <<>> THEN <<x>>
    ELSE IF x < Head(s) THEN <<x>> \o s
    ELSE <<Head(s)>> \o InsertInt(x, Tail(s))

RECURSIVE SortedInts(_, _)
SortedInts(counts, n) ==
    IF n = 0 THEN <<>> ELSE InsertInt(counts[n - 1], SortedInts(counts, n - 1))

\* A slip: the weight 2i - n + 1 taken with i counted from 1.
RECURSIVE GiniNumeratorOneBased(_, _, _)
GiniNumeratorOneBased(sorted_counts, n, i) ==
    IF i = n THEN 0
    ELSE (2 * (i + 1) - n + 1) * sorted_counts[i + 1]
            + GiniNumeratorOneBased(sorted_counts, n, i + 1)

\* sum((2 * i - n + 1) * val for i, val in enumerate(sorted_counts)), from
\* index i on; sorted_counts is 1-indexed here.
RECURSIVE GiniNumerator(_, _, _)
GiniNumerator(sorted_counts, n, i) ==
    IF i = n THEN 0
    ELSE (2 * i - n + 1) * sorted_counts[i + 1]
            + GiniNumerator(sorted_counts, n, i + 1)

\* A slip: the zero-mass case not special-cased, so 0 is divided by 0.
gini_unguarded(counts) ==
    LET n == VecLen(counts)
        total == Sum(counts)
        sorted_counts == SortedInts(counts, n)
    IN  IF n < 2 THEN [num |-> 0, den |-> 1]
        ELSE [num |-> GiniNumerator(sorted_counts, n, 0), den |-> n * total]

\* The Gini coefficient as the exact fraction numerator / denominator;
\* the literal 0.0 is 0 / 1.
gini_coefficient(counts) ==
    LET n == VecLen(counts)
        total == Sum(counts)
        sorted_counts == SortedInts(counts, n)
    IN  IF n < 2 THEN [num |-> 0, den |-> 1]
        ELSE IF total = 0 THEN [num |-> 0, den |-> 1]
        ELSE [num |-> GiniNumerator(sorted_counts, n, 0), den |-> n * total]

\* A slip: the key (-count, -index), so ties run by descending index.
RankBeforeTiesDescending(x, y) ==
    \/ -x[2] < -y[2]
    \/ x[2] = y[2] /\ x[1] > y[1]

\* The sort key of ranked_bins: (-count, index), compared as tuples.
RankBefore(x, y) ==
    \/ -x[2] < -y[2]
    \/ x[2] = y[2] /\ x[1] < y[1]

RECURSIVE SortRanked(_)
SortRanked(items) ==
    IF items = {} THEN <<>>
    ELSE LET first == CHOOSE x \in items :
                          \A y \in items \ {x} : RankBefore(x, y)
         IN  <<first>> \o SortRanked(items \ {first})

\* ranked_bins: the list of (index, count) pairs, sorted, cut to items[:k].
ranked_bins(counts, k) ==
    LET items == {<<i, counts[i]>> : i \in DOMAIN counts}
    IN  SliceTo(SortRanked(items), k)

(* ------------------------- Payload Generators ------------------------- *)

\* load_lines: the non-empty normalized lines of a file, in file order.
RECURSIVE load_lines(_)
load_lines(lines) ==
    IF lines = <<>> THEN <<>>
    ELSE LET line == normalize_text(Head(lines))
         IN  IF line = <<>> THEN load_lines(Tail(lines))
             ELSE <<line>> \o load_lines(Tail(lines))

\* parse_alphabet_file: the alphabet, or the ValueError it raises.
parse_alphabet_file(lines) ==
    LET alphabet == load_lines(lines)
    IN  IF Len(alphabet) < 3
        THEN [raised |-> "ValueError", alphabet |-> <<>>]
        ELSE [raised |-> "", alphabet |-> alphabet]

TripleBefore(x, y) ==
    \/ x[1] < y[1]
    \/ x[1] = y[1] /\ x[2] < y[2]
    \/ x[1] = y[1] /\ x[2] = y[2] /\ x[3] < y[3]

RECURSIVE SortTriples(_)
SortTriples(S) ==
    IF S = {} THEN <<>>
    ELSE LET first == CHOOSE x \in S : \A y \in S \ {x} : TripleBefore(x, y)
         IN  <<first>> \o SortTriples(S \ {first})

\* A slip: permutations taken for combinations.
permutations3(n) ==
    SortTriples({t \in (1..n) \X (1..n) \X (1..n) :
                    t[1] # t[2] /\ t[2] # t[3] /\ t[1] # t[3]})

\* itertools.combinations(range(n), 3): the position triples i < j < k in
\* lexicographic order.
combinations3(n) ==
    SortTriples({t \in (1..n) \X (1..n) \X (1..n) : t[1] < t[2] /\ t[2] < t[3]})

\* generate_exhaustive_triplets, as the list it yields.
generate_exhaustive_triplets(alphabet) ==
    LET idx == combinations3(Len(alphabet))
    IN  [m \in 1..Len(idx) |->
            alphabet[idx[m][1]] \o <<"-">> \o alphabet[idx[m][2]]
                \o <<"-">> \o alphabet[idx[m][3]]]

\* What rng.sample(alphabet, 3) can return: three distinct positions in any
\* order.
Samples(alphabet) ==
    {t \in (1..Len(alphabet)) \X (1..Len(alphabet)) \X (1..Len(alphabet)) :
        t[1] # t[2] /\ t[1] # t[3] /\ t[2] # t[3]}

\* A slip: the tokens joined in draw order, not sorted.
random_triplet_unsorted(alphabet, draw) ==
    Join(<<"-">>, <<normalize_text(alphabet[draw[1]]),
                    normalize_text(alphabet[draw[2]]),
                    normalize_text(alphabet[draw[3]])>>)

\* One payload of generate_random_triplets, for the positions sampled.
random_triplet(alphabet, draw) ==
    LET tokens == SortedStrs(<<normalize_text(alphabet[draw[1]]),
                               normalize_text(alphabet[draw[2]]),
                               normalize_text(alphabet[draw[3]])>>)
    IN  Join(<<"-">>, tokens)

\* generate_random_triplets: the exception its first step raises, if any.
random_triplets_raises(alphabet, n) ==
    IF n < 0 THEN "ValueError"
    ELSE IF Len(alphabet) < 3 THEN "ValueError"
    ELSE ""

(* ----------------------------- msq_state ------------------------------ *)

\* MSQState.__post_init__: the ValueError a wrong length raises.
MSQStateRaises(size, tiles, locks) ==
    LET n == size * size
    IN  IF Len(tiles) # n THEN "ValueError"
        ELSE IF Len(locks) # n THEN "ValueError"
        ELSE ""

\* An Optional value: None is the empty sequence, a value v is <<v>>.
None == <<>>
Some(v) == <<v>>

msq_canonical_string(state, version) ==
    LET g == [i \in 1..Len(state.tiles) |->
                 IF state.tiles[i] = None THEN <<"_">>
                 ELSE Str(state.tiles[i][1])]
        l == [i \in 1..Len(state.locks) |->
                 IF state.locks[i] THEN "1" ELSE "0"]
    IN  _norm(<<"MSQ", "|">> \o version \o <<"|", "N", "=">> \o Str(state.size)
              \o <<"|", "T", "=">> \o Str(state.target_sum)
              \o <<"|", "R", "=">> \o state.ruleset_id
              \o <<"|", "G", "=">> \o Join(<<",">>, g)
              \o <<"|", "L", "=">> \o l)

state_id_and_bin(state, n_bins) ==
    LET canon == msq_canonical_string(state, <<"v1">>)
        hid == sha256_hex(canon)
    IN  IF n_bins = 0
        THEN [raised |-> "ZeroDivisionError"]
        ELSE [raised |-> "", id |-> hid, bin |-> PyMod(IntBase16(hid), n_bins)]

(* --------------------------- Run Aggregator --------------------------- *)

\* The locals of compute_run before its loop: counts, members, n_units.
RunLocals(n_bins) ==
    [counts |-> [i \in 0..(n_bins - 1) |-> 0], members |-> <<>>, n_units |-> 0]

\* A slip: <= for <, so a list at the cap takes one more identifier.
AddMemberOneOver(members, bin_index, identifier, top_member_limit) ==
    LET had == IF bin_index \in DOMAIN members THEN members[bin_index] ELSE <<>>
        now == IF Len(had) <= top_member_limit
               THEN Append(had, identifier) ELSE had
    IN  [b \in DOMAIN members \cup {bin_index} |->
            IF b = bin_index THEN now ELSE members[b]]

\* members.setdefault(bin_index, []) and the capped append.
AddMember(members, bin_index, identifier, top_member_limit) ==
    LET had == IF bin_index \in DOMAIN members THEN members[bin_index] ELSE <<>>
        now == IF Len(had) < top_member_limit
               THEN Append(had, identifier) ELSE had
    IN  [b \in DOMAIN members \cup {bin_index} |->
            IF b = bin_index THEN now ELSE members[b]]

\* A slip: the bucket of the unit takes 2 where the unit counter takes 1.
RunBodyCountingTwice(loc, dataset_id, payload, n_bins, top_member_limit) ==
    LET canon == canonical_string(dataset_id, DEFAULT_SCRIPT, DEFAULT_UNIT_TYPE,
                                  payload, DEFAULT_CANON_VERSION)
        routed == route_bin(canon, n_bins)
    IN  IF routed.raised # "" THEN [raised |-> routed.raised, loc |-> loc]
        ELSE IF routed.bin \notin DOMAIN loc.counts
        THEN [raised |-> "IndexError", loc |-> loc]
        ELSE [raised |-> "",
              loc |-> [counts |-> [loc.counts EXCEPT ![routed.bin] = @ + 2],
                       n_units |-> loc.n_units + 1,
                       members |-> AddMember(loc.members, routed.bin, routed.id,
                                             top_member_limit)]]

\* One pass of the loop body of compute_run over `payload`: the new locals,
\* or the exception the body raises (no bucket to index).
RunBody(loc, dataset_id, payload, n_bins, top_member_limit) ==
    LET canon == canonical_string(dataset_id, DEFAULT_SCRIPT, DEFAULT_UNIT_TYPE,
                                  payload, DEFAULT_CANON_VERSION)
        routed == route_bin(canon, n_bins)
    IN  IF routed.raised # "" THEN [raised |-> routed.raised, loc |-> loc]
        ELSE IF routed.bin \notin DOMAIN loc.counts
        THEN [raised |-> "IndexError", loc |-> loc]
        ELSE [raised |-> "",
              loc |-> [counts |-> [loc.counts EXCEPT ![routed.bin] = @ + 1],
                       n_units |-> loc.n_units + 1,
                       members |-> AddMember(loc.members, routed.bin, routed.id,
                                             top_member_limit)]]

\* top_bins of the record: ranked_bins(counts, k=10) with the sample members.
TopBins(counts, members) ==
    LET ranked == ranked_bins(counts, DEFAULT_TOP_K)
    IN  [m \in 1..Len(ranked) |->
            [bin |-> ranked[m][1], count |-> ranked[m][2],
             member_ids |-> IF ranked[m][1] \in DOMAIN members
                            THEN members[ranked[m][1]] ELSE <<>>]]

\* The HarnessRun compute_run assembles from its locals after the loop;
\* now_iso is what utc_now_iso() returned.
HarnessRun(loc, dataset_id, mode, n_bins, include_counts, seed, now_iso) ==
    LET counts == loc.counts
        empty_bins == Cardinality({i \in DOMAIN counts : counts[i] = 0})
    IN  [schema_version |-> <<"bin_harness_run_v1">>,
         run_id |-> <<"RUN-BIN384-">>
                      \o Upper(SliceTo(sha256_hex(dataset_id \o <<"|">> \o mode
                                                     \o <<"|">> \o Str(now_iso)),
                                        RUN_ID_HEX_LEN)),
         created_at |-> now_iso,
         dataset_id |-> dataset_id,
         mode |-> mode,
         n_bins |-> n_bins,
         N |-> loc.n_units,
         empty_bins |-> empty_bins,
         empty_ratio |-> IF n_bins # 0 THEN [num |-> empty_bins, den |-> n_bins]
                         ELSE [num |-> 0, den |-> 1],
         entropy |-> shannon_entropy(counts),
         gini |-> gini_coefficient(counts),
         max_load |-> IF DOMAIN counts # {} THEN Max(counts) ELSE 0,
         collision_bins |-> Cardinality({i \in DOMAIN counts : counts[i] >= 2}),
         top_bins |-> TopBins(counts, loc.members),
         bin_counts |-> IF include_counts THEN Some(counts) ELSE None,
         script |-> DEFAULT_SCRIPT,
         unit_type |-> DEFAULT_UNIT_TYPE,
         canon_version |-> DEFAULT_CANON_VERSION,
         seed |-> seed]

\* The loop of compute_run over a list of payloads.
RECURSIVE RunLoop(_, _, _, _, _)
RunLoop(loc, dataset_id, items, n_bins, top_member_limit) ==
    IF items = <<>> THEN [raised |-> "", loc |-> loc]
    ELSE LET r == RunBody(loc, dataset_id, Head(items), n_bins,
                          top_member_limit)
         IN  IF r.raised # "" THEN r
             ELSE RunLoop(r.loc, dataset_id, Tail(items), n_bins,
                          top_member_limit)

\* compute_run on a list of payloads, start to end: the record, or the
\* exception raised.
compute_run(dataset_id, mode, items, n_bins, include_counts, seed, limit, now_iso) ==
    LET r == RunLoop(RunLocals(n_bins), dataset_id, items, n_bins, limit)
    IN  IF r.raised # "" THEN [raised |-> r.raised]
        ELSE [raised |-> "",
              run |-> HarnessRun(r.loc, dataset_id, mode, n_bins,
                                 include_counts, seed, now_iso)]

(* ------------------------------- state -------------------------------- *)

VARIABLES
    call,       \* the call the driver makes: the function and its arguments
    pc,         \* where the driver is: "call", inside compute_run, "done"
    payloads,   \* the payload iterator compute_run consumes
    counts,     \* compute_run's occupancy vector
    members,    \* compute_run's per-bucket sample members
    n_units,    \* compute_run's unit counter
    arrivals,   \* what route_bin returned, iteration by iteration (history)
    ret,        \* what the call returned
    procs,      \* the invocations of main(): position, arguments, locals
    log,        \* the run log: the chunks written to it, in file order
    summary,    \* the "latest" snapshot file
    events,     \* the telemetry log: the chunks written to it
    lock,       \* who holds the sidecar lock file of each log
    effects     \* per invocation: the file writes it has performed

vars == <<call, pc, payloads, counts, members, n_units, arrivals, ret,
          procs, log, summary, events, lock, effects>>

mainVars == <<procs, log, summary, events, lock, effects>>

driverVars == <<call, pc, payloads, counts, members, n_units, arrivals, ret>>

NoCall == [fn |-> "none"]
NoIter == [kind |-> "none"]

(* ------------------------------ inputs -------------------------------- *)

SymbolPool == <<<<"b">>, <<"a">>, <<"d">>, <<"c">>, <<"e">>, <<"f">>>>

\* The alphabets of distinct symbols, in any order, up to MaxAlphabet long.
DistinctAlphabets ==
    LET pool == {SymbolPool[i] : i \in 1..MaxAlphabet}
    IN  UNION {{s \in [1..n -> pool] : \A i, j \in 1..n : i # j => s[i] # s[j]} :
                 n \in 0..MaxAlphabet}

\* Alphabets for random mode: too short, plain, and with symbols that
\* normalization changes.
RandomAlphabets ==
    { <<<<"a">>, <<"b">>>>,
      <<<<"b">>, <<"a">>, <<"c">>>>,
      <<<<"c", " ">>, <<"FW_a">>, <<"b">>, <<"d">>>> }

PayloadPool ==
    { <<"a", "-", "b", "-", "c">>, <<" ", "a", "-", "b", "-", "c">>,
      <<"FW_a", "-", "b", "-", "c">>, <<"b", "-", "a", "-", "c">> }

PayloadLists == UNION {[1..n -> PayloadPool] : n \in 0..MaxUnits}

DatasetIds == {<<"DS">>, <<"HEB_ALL_TRIPLETS_22C3">>}

BinArgs == (0..MaxBins) \cup {DEFAULT_TOP_K + 1}

MemberLimits == {1, DEFAULT_TOP_MEMBER_LIMIT}

Instants == 1..MaxClock

\* The canonical strings a driver routes.
CanonInputs ==
    {canonical_string(d, DEFAULT_SCRIPT, DEFAULT_UNIT_TYPE, p, DEFAULT_CANON_VERSION) :
        d \in DatasetIds, p \in PayloadPool}

OccupancyVectors == UNION {[0..(n - 1) -> 0..MaxCount] : n \in 0..MaxBins}

\* The vectors with all entries equal: of every length up to MaxUniformBins
\* and of every common value up to MaxUniform.
UniformVectors ==
    {[i \in 0..(n - 1) |-> v] : n \in 0..MaxUniformBins, v \in 0..MaxUniform}

MSQStates ==
    {[size |-> sz, target_sum |-> t, ruleset_id |-> r, tiles |-> g, locks |-> l] :
        sz \in {1}, t \in {15}, r \in {<<"RS-MSQ-0001">>, <<"RS-2">>},
        g \in {<<Some(8)>>, <<None>>, <<Some(12)>>}, l \in {<<FALSE>>, <<TRUE>>}}
        \cup
    {[size |-> 2, target_sum |-> 5, ruleset_id |-> <<"RS-MSQ-0001">>,
      tiles |-> <<Some(1), None, Some(3), Some(4)>>,
      locks |-> <<FALSE, TRUE, FALSE, FALSE>>]}

\* The payload iterators: a list (exhaustive or file mode), or the random
\* generator with `left` draws to go.
ListIter(items) == [kind |-> "list", items |-> items]
RandomIter(alphabet, n) ==
    [kind |-> "random", alphabet |-> alphabet, n |-> n, left |-> n]

RunSources ==
    {[mode |-> <<"exhaustive">>, alphabet |-> a,
      iter |-> ListIter(generate_exhaustive_triplets(a))] :
        a \in DistinctAlphabets}
    \cup {[mode |-> <<"file">>, alphabet |-> <<>>, iter |-> ListIter(l)] :
            l \in PayloadLists}
    \cup {[mode |-> <<"random">>, alphabet |-> a, iter |-> RandomIter(a, n)] :
            a \in RandomAlphabets, n \in -1..MaxUnits}

\* The calls a driver makes.
Calls ==
    {[fn |-> "route_bin", canon |-> canon, n_bins |-> n] :
        canon \in CanonInputs, n \in (-1..MaxBins) \cup {DEFAULT_N_BINS}}
    \cup
    {[fn |-> "state_id_and_bin", state |-> st, n_bins |-> n] :
        st \in MSQStates, n \in (1..MaxBins) \cup {DEFAULT_N_BINS}}
    \cup
    {[fn |-> "ranked_bins", counts |-> cs, k |-> k] :
        cs \in OccupancyVectors, k \in -1..MaxK}
    \cup
    {[fn |-> "generate_exhaustive_triplets", alphabet |-> a] :
        a \in DistinctAlphabets}
    \cup
    {[fn |-> "gini_coefficient", counts |-> cs] :
        cs \in OccupancyVectors \cup UniformVectors}
    \cup
    {[fn |-> "generate_random_triplets", alphabet |-> a, dataset_id |-> d,
      n_bins |-> n] :
        a \in RandomAlphabets \cup DistinctAlphabets, d \in DatasetIds,
        n \in 1..MaxBins}
    \cup
    {[fn |-> "compute_run", dataset_id |-> d, mode |-> c.mode,
      alphabet |-> c.alphabet, iter |-> c.iter, n_bins |-> n,
      include_counts |-> inc,
      seed |-> IF c.mode = <<"random">> THEN Some(0) ELSE None,
      top_member_limit |-> lim] :
        c \in RunSources, d \in DatasetIds, n \in BinArgs, inc \in BOOLEAN,
        lim \in MemberLimits}

(* --------------------- the driver: single calls ----------------------- *)

Return(result) ==
    /\ pc' = "done"
    /\ ret' = result
    /\ UNCHANGED <<call, payloads, counts, members, n_units, arrivals>>
    /\ UNCHANGED mainVars

CallRouteBin ==
    /\ pc = "call"
    /\ call.fn = "route_bin"
    /\ Return(route_bin(call.canon, call.n_bins))

CallStateIdAndBin ==
    /\ pc = "call"
    /\ call.fn = "state_id_and_bin"
    /\ MSQStateRaises(call.state.size, call.state.tiles, call.state.locks) = ""
    /\ Return(state_id_and_bin(call.state, call.n_bins))

CallRankedBins ==
    /\ pc = "call"
    /\ call.fn = "ranked_bins"
    /\ Return(ranked_bins(call.counts, call.k))

CallExhaustive ==
    /\ pc = "call"
    /\ call.fn = "generate_exhaustive_triplets"
    /\ Return(generate_exhaustive_triplets(call.alphabet))

CallGini ==
    /\ pc = "call"
    /\ call.fn = "gini_coefficient"
    /\ Return(gini_coefficient(call.counts))

\* Routing a payload as the loop of compute_run routes it.
RoutePayload(dataset_id, payload, n_bins) ==
    route_bin(canonical_string(dataset_id, DEFAULT_SCRIPT, DEFAULT_UNIT_TYPE,
                               payload, DEFAULT_CANON_VERSION), n_bins)

\* The (identifier, bin_index) pair line 185 of compute_run unpacks.
Arrival(routed) == [id |-> routed.id, bin |-> routed.bin]

\* One payload drawn by generate_random_triplets, and where it is routed.
CallRandomTriplet ==
    /\ pc = "call"
    /\ call.fn = "generate_random_triplets"
    /\ random_triplets_raises(call.alphabet, 1) = ""
    /\ \E draw \in Samples(call.alphabet) :
          LET payload == random_triplet(call.alphabet, draw)
          IN  Return([draw |-> draw, payload |-> payload,
                      routed |-> RoutePayload(call.dataset_id, payload,
                                              call.n_bins)])

(* --------------------- the driver: compute_run ------------------------ *)

\* compute_run, lines 173-175: the call and the initial locals.
RunStart ==
    /\ pc = "call"
    /\ call.fn = "compute_run"
    /\ payloads' = call.iter
    /\ counts' = RunLocals(call.n_bins).counts
    /\ members' = RunLocals(call.n_bins).members
    /\ n_units' = RunLocals(call.n_bins).n_units
    /\ arrivals' = <<>>
    /\ pc' = "loop"
    /\ UNCHANGED <<call, ret>>
    /\ UNCHANGED mainVars

\* The iterator has a next payload.
HasNext(it) ==
    IF it.kind = "list" THEN it.items # <<>>
    ELSE random_triplets_raises(it.alphabet, it.n) = "" /\ it.left > 0

\* The payloads the iterator can yield next, each with the iterator after.
NextPayloads(it) ==
    IF it.kind = "list"
    THEN {[payload |-> Head(it.items), iter |-> ListIter(Tail(it.items))]}
    ELSE {[payload |-> random_triplet(it.alphabet, draw),
           iter |-> [it EXCEPT !.left = @ - 1]] : draw \in Samples(it.alphabet)}

\* An exception leaves compute_run: the locals are gone.
Unwind(exc) ==
    /\ pc' = "done"
    /\ ret' = [raised |-> exc]
    /\ payloads' = NoIter
    /\ counts' = <<>>
    /\ members' = <<>>
    /\ n_units' = 0
    /\ arrivals' = <<>>
    /\ UNCHANGED call

\* compute_run, lines 177-191: one iteration of the loop.
RunStep ==
    /\ pc = "loop"
    /\ HasNext(payloads)
    /\ \E nx \in NextPayloads(payloads) :
          LET r == RunBody([counts |-> counts, members |-> members,
                            n_units |-> n_units],
                           call.dataset_id, nx.payload, call.n_bins,
                           call.top_member_limit)
          IN  IF r.raised # "" THEN Unwind(r.raised)
              ELSE /\ counts' = r.loc.counts
                   /\ members' = r.loc.members
                   /\ n_units' = r.loc.n_units
                   /\ arrivals' = Append(arrivals,
                                         Arrival(RoutePayload(call.dataset_id,
                                                              nx.payload,
                                                              call.n_bins)))
                   /\ payloads' = nx.iter
                   /\ UNCHANGED <<pc, call, ret>>
    /\ UNCHANGED mainVars

\* generate_random_triplets raises on its first step (lines 153-156).
RunIterRaises ==
    /\ pc = "loop"
    /\ payloads.kind = "random"
    /\ random_triplets_raises(payloads.alphabet, payloads.n) # ""
    /\ Unwind(random_triplets_raises(payloads.alphabet, payloads.n))
    /\ UNCHANGED mainVars

\* compute_run, lines 193-224: the loop is over; the record is assembled.
RunAssemble ==
    /\ pc = "loop"
    /\ ~HasNext(payloads)
    /\ payloads.kind = "random" =>
          random_triplets_raises(payloads.alphabet, payloads.n) = ""
    /\ \E now_iso \in Instants :
          ret' = [raised |-> "",
                  run |-> HarnessRun([counts |-> counts, members |-> members,
                                      n_units |-> n_units],
                                     call.dataset_id, call.mode, call.n_bins,
                                     call.include_counts, call.seed, now_iso)]
    /\ pc' = "assembled"
    /\ UNCHANGED <<call, payloads, counts, members, n_units, arrivals>>
    /\ UNCHANGED mainVars

\* compute_run, line 225: return; the locals are gone.
RunReturn ==
    /\ pc = "assembled"
    /\ pc' = "done"
    /\ payloads' = NoIter
    /\ counts' = <<>>
    /\ members' = <<>>
    /\ n_units' = 0
    /\ arrivals' = <<>>
    /\ UNCHANGED <<call, ret>>
    /\ UNCHANGED mainVars

InitMainIdle ==
    /\ procs = <<>>
    /\ log = <<>>
    /\ summary = None
    /\ events = <<>>
    /\ lock = [runs |-> None, events |-> None]
    /\ effects = <<>>

Init ==
    /\ call \in Calls
    /\ pc = "call"
    /\ payloads = NoIter
    /\ counts = <<>>
    /\ members = <<>>
    /\ n_units = 0
    /\ arrivals = <<>>
    /\ ret = NoCall
    /\ InitMainIdle

Next ==
    \/ CallRouteBin
    \/ CallStateIdAndBin
    \/ CallRankedBins
    \/ CallExhaustive
    \/ CallGini
    \/ CallRandomTriplet
    \/ RunStart
    \/ RunStep
    \/ RunIterRaises
    \/ RunAssemble
    \/ RunReturn

Spec == Init /\ [][Next]_vars

(* ------------------------------- main() ------------------------------- *)

\* The invocations of main() that run side by side on one log and one
\* snapshot path.
Procs == {"p1", "p2"}

AlphabetFiles ==
    { <<<<"a">>, <<>>, <<"b">>>>,
      <<<<"c", " ">>, <<" ">>, <<"FW_a">>, <<"b">>, <<"d">>>> }

InputFiles ==
    { <<>>,
      <<<<"a", "-", "b", "-", "c">>, <<>>, <<" ", "b", "-", "a", "-", "c">>>> }

\* The command lines of the three subcommands, after argparse.
CommandLines ==
    {[mode |-> <<"random">>, alphabet_file |-> f, input |-> <<>>, n |-> n,
      runs |-> r, seed |-> 0, n_bins |-> b, dataset_id |-> d,
      include_counts |-> FALSE] :
        f \in AlphabetFiles, n \in {-1, 1}, r \in 0..2, b \in {0, 2},
        d \in {<<>>, <<"DS">>}}
    \cup
    {[mode |-> <<"exhaustive">>, alphabet_file |-> f, input |-> <<>>, n |-> 0,
      runs |-> 1, seed |-> 0, n_bins |-> b, dataset_id |-> d,
      include_counts |-> TRUE] :
        f \in AlphabetFiles, b \in {-1, 2}, d \in {<<>>, <<"DS", " ">>}}
    \cup
    {[mode |-> <<"file">>, alphabet_file |-> <<>>, input |-> f, n |-> 0,
      runs |-> 1, seed |-> 0, n_bins |-> b, dataset_id |-> d,
      include_counts |-> FALSE] :
        f \in InputFiles, b \in {0, 2}, d \in {<<>>, <<" ">>, <<"DS">>}}

\* The command lines of two invocations that run side by side.
ConcurrentCommandLines ==
    {c \in CommandLines :
        /\ c.n_bins = 2
        /\ c.dataset_id # <<>>
        /\ \/ c.mode = <<"file">> /\ c.input # <<>> /\ c.dataset_id = <<"DS">>
           \/ c.mode = <<"exhaustive">> /\ Len(c.alphabet_file) > 3}

\* What the log and the snapshot hold from an earlier invocation.
OldRun ==
    compute_run(<<"DS">>, <<"file">>, <<>>, 1, FALSE, None,
                DEFAULT_TOP_MEMBER_LIMIT, 1).run

\* The sidecar lock files, by the log they guard: nobody holds either.
NoLocks == [runs |-> None, events |-> None]

\* A process exit: the status, and the uncaught exception if that ended it.
Exit(status, exc) == [status |-> status, exc |-> exc]

\* main, line 261: the bin count is rejected.
BadBinCount(n_bins) == n_bins <= 0

\* main, line 272: the run count is rejected.
BadRunCount(runs) == runs <= 0

\* A slip: the dataset id tested without .strip().
MissingDatasetIdUnstripped(dataset_id) == dataset_id = <<>>

\* main, lines 306-307: file mode has no dataset id.
MissingDatasetId(dataset_id) == strip(dataset_id) = <<>>

\* The dataset id of run idx (0-based) of an invocation.
RunDatasetId(a, idx) ==
    IF a.mode = <<"random">>
    THEN (IF strip(a.dataset_id) # <<>> THEN strip(a.dataset_id)
          ELSE <<"RANDOM_CONTROL">>)
         \o <<"_N">> \o Str(a.n) \o <<"_RUN">> \o Str(idx + 1)
    ELSE IF a.mode = <<"exhaustive">>
    THEN (IF strip(a.dataset_id) # <<>> THEN strip(a.dataset_id)
          ELSE <<"HEB_ALL_TRIPLETS_22C3">>)
    ELSE strip(a.dataset_id)

\* A slip: the snapshot written straight after the record is computed.
AfterComputeSkippingAppend == "snapshot"

\* main, lines 288-289, 302-303, 319-320: a computed record is appended next.
AfterCompute == "append"

\* main, lines 277, 322: after an append, the next run or the snapshot.
AfterAppend(a, idx) ==
    IF a.mode = <<"random">> /\ idx + 1 < a.runs THEN "compute" ELSE "snapshot"

\* The locals of an invocation as main starts.
NewProc(a) ==
    [pc |-> "enter", args |-> a, alphabet |-> <<>>, idx |-> 0, latest |-> None,
     computed |-> <<>>, exit |-> None]

Exited(p, e) == [p EXCEPT !.pc = "exited", !.exit = Some(e)]

\* main, lines 259-276, 291-293, 305-309: the checks made and the files read
\* before the first run is computed.
MainEnter(i) ==
    LET p == procs[i]
        a == p.args
        parsed == parse_alphabet_file(a.alphabet_file)
    IN  /\ p.pc = "enter"
        /\ procs' = [procs EXCEPT ![i] =
              IF BadBinCount(a.n_bins) THEN Exited(p, Exit(2, ""))
              ELSE IF a.mode \in {<<"random">>, <<"exhaustive">>}
                      /\ parsed.raised # ""
              THEN Exited(p, Exit(1, parsed.raised))
              ELSE IF a.mode = <<"random">> /\ BadRunCount(a.runs)
              THEN Exited(p, Exit(2, ""))
              ELSE IF a.mode = <<"file">> /\ MissingDatasetId(a.dataset_id)
              THEN Exited(p, Exit(2, ""))
              ELSE [p EXCEPT !.pc = "compute", !.alphabet = parsed.alphabet]]
        /\ UNCHANGED <<log, summary, events, lock, effects>>
        /\ UNCHANGED driverVars

\* The payload lists a run of the invocation can stream.
MainPayloads(p) ==
    LET a == p.args
    IN  IF a.mode = <<"exhaustive">>
        THEN {generate_exhaustive_triplets(p.alphabet)}
        ELSE IF a.mode = <<"file">> THEN {load_lines(a.input)}
        ELSE [1..a.n ->
                {random_triplet(p.alphabet, d) : d \in Samples(p.alphabet)}]

\* main, lines 278-288, 294-302, 311-319: one run is computed.
MainCompute(i) ==
    LET p == procs[i]
        a == p.args
    IN  /\ p.pc = "compute"
        /\ IF a.mode = <<"random">>
              /\ random_triplets_raises(p.alphabet, a.n) # ""
           THEN procs' = [procs EXCEPT ![i] =
                   Exited(p, Exit(1, random_triplets_raises(p.alphabet, a.n)))]
           ELSE \E items \in MainPayloads(p), now_iso \in Instants :
                   LET r == compute_run(RunDatasetId(a, p.idx), a.mode, items,
                                a.n_bins, a.include_counts,
                                IF a.mode = <<"random">>
                                THEN Some(a.seed + p.idx) ELSE None,
                                DEFAULT_TOP_MEMBER_LIMIT, now_iso)
                   IN  procs' = [procs EXCEPT ![i] =
                          IF r.raised # "" THEN Exited(p, Exit(1, r.raised))
                          ELSE [p EXCEPT !.pc = AfterCompute,
                                         !.latest = Some(r.run),
                                         !.computed = Append(@, r.run)]]
        /\ UNCHANGED <<log, summary, events, lock, effects>>
        /\ UNCHANGED driverVars

\* append_jsonl, lines 129-130: the log is opened for appending, or the open
\* fails.
MainAppendOpen(i) ==
    LET p == procs[i]
    IN  /\ p.pc = "append"
        /\ \/ procs' = [procs EXCEPT ![i] = [p EXCEPT !.pc = "appending"]]
           \/ procs' = [procs EXCEPT ![i] = Exited(p, Exit(1, "OSError"))]
        /\ UNCHANGED <<log, summary, events, lock, effects>>
        /\ UNCHANGED driverVars

\* A piece of a line in a log file: who wrote it, of which record, and
\* whether it is the whole line, its head or its tail.
Chunk(i, rec, part) == [writer |-> i, rec |-> rec, part |-> part]

\* append_jsonl, lines 130-131: the line reaches the file in one write, and
\* the file is closed.
MainAppendWhole(i) ==
    LET p == procs[i]
    IN  /\ p.pc = "appending"
        /\ log' = Append(log, Chunk(i, p.latest[1], "whole"))
        /\ effects' = [effects EXCEPT ![i] =
                          Append(@, [op |-> "append", rec |-> p.latest[1]])]
        /\ procs' = [procs EXCEPT ![i] =
                        [p EXCEPT !.pc = AfterAppend(p.args, p.idx),
                                  !.idx = @ + 1]]
        /\ UNCHANGED <<summary, events, lock>>
        /\ UNCHANGED driverVars

\* append_jsonl, line 131: a line longer than the file buffer reaches the
\* file in two writes; this is the first.
MainAppendHead(i) ==
    LET p == procs[i]
    IN  /\ p.pc = "appending"
        /\ log' = Append(log, Chunk(i, p.latest[1], "head"))
        /\ procs' = [procs EXCEPT ![i] = [p EXCEPT !.pc = "appending_tail"]]
        /\ UNCHANGED <<summary, events, lock, effects>>
        /\ UNCHANGED driverVars

\* append_jsonl, line 131: the second write, and the file is closed.
MainAppendTail(i) ==
    LET p == procs[i]
    IN  /\ p.pc = "appending_tail"
        /\ log' = Append(log, Chunk(i, p.latest[1], "tail"))
        /\ effects' = [effects EXCEPT ![i] =
                          Append(@, [op |-> "append", rec |-> p.latest[1]])]
        /\ procs' = [procs EXCEPT ![i] =
                        [p EXCEPT !.pc = AfterAppend(p.args, p.idx),
                                  !.idx = @ + 1]]
        /\ UNCHANGED <<summary, events, lock>>
        /\ UNCHANGED driverVars

\* main, lines 322-344, and write_json: the snapshot is overwritten and the
\* invocation returns 0; or opening it fails; or the dump fails after the
\* open truncated the file.
MainWriteSummary(i) ==
    LET p == procs[i]
    IN  /\ p.pc = "snapshot"
        /\ IF p.latest = None
           THEN /\ procs' = [procs EXCEPT ![i] = Exited(p, Exit(1, ""))]
                /\ UNCHANGED <<summary, effects>>
           ELSE \/ /\ summary' = Some([writer |-> i, rec |-> p.latest[1],
                                       torn |-> FALSE])
                   /\ effects' = [effects EXCEPT ![i] =
                         Append(@, [op |-> "write", rec |-> p.latest[1]])]
                   /\ procs' = [procs EXCEPT ![i] = Exited(p, Exit(0, ""))]
                \/ /\ procs' = [procs EXCEPT ![i] = Exited(p, Exit(1, "OSError"))]
                   /\ UNCHANGED <<summary, effects>>
                \/ /\ summary' = Some([writer |-> i, rec |-> p.latest[1],
                                       torn |-> TRUE])
                   /\ effects' = [effects EXCEPT ![i] =
                         Append(@, [op |-> "torn", rec |-> p.latest[1]])]
                   /\ procs' = [procs EXCEPT ![i] = Exited(p, Exit(1, "OSError"))]
        /\ UNCHANGED <<log, events, lock>>
        /\ UNCHANGED driverVars

InitDriverIdle ==
    /\ call = NoCall
    /\ pc = "none"
    /\ payloads = NoIter
    /\ counts = <<>>
    /\ members = <<>>
    /\ n_units = 0
    /\ arrivals = <<>>
    /\ ret = NoCall

\* One invocation, on files that are absent or left by an earlier one.
InitMain ==
    /\ InitDriverIdle
    /\ procs \in {[i \in {"p1"} |-> NewProc(c)] : c \in CommandLines}
    /\ \/ log = <<>> /\ summary = None
       \/ /\ log = <<[writer |-> "old", rec |-> OldRun, part |-> "whole"]>>
          /\ summary = Some([writer |-> "old", rec |-> OldRun, torn |-> FALSE])
    /\ events = <<>>
    /\ lock = NoLocks
    /\ effects = [i \in {"p1"} |-> <<>>]

\* Two invocations side by side on the same log and snapshot paths.
InitConcurrent ==
    /\ InitDriverIdle
    /\ procs \in {[i \in Procs |-> NewProc(f[i])] :
                    f \in [Procs -> ConcurrentCommandLines]}
    /\ log = <<>>
    /\ summary = None
    /\ events = <<>>
    /\ lock = NoLocks
    /\ effects = [i \in Procs |-> <<>>]

NextMain ==
    \/ \E i \in DOMAIN procs : MainEnter(i)
    \/ \E i \in DOMAIN procs : MainCompute(i)
    \/ \E i \in DOMAIN procs : MainAppendOpen(i)
    \/ \E i \in DOMAIN procs : MainAppendWhole(i)
    \/ \E i \in DOMAIN procs : MainAppendHead(i)
    \/ \E i \in DOMAIN procs : MainAppendTail(i)
    \/ \E i \in DOMAIN procs : MainWriteSummary(i)

SpecMain == InitMain /\ [][NextMain]_vars

SpecConcurrent == InitConcurrent /\ [][NextMain]_vars

(* ------------------------ msq_telemetry sink -------------------------- *)

\* The telemetry writers that append events side by side to one events log.
TelemetryProcs == {"t1", "t2"}

\* new_event, for the demo session's puzzle state.
new_event(event_type, state, created_at) ==
    [schema_version |-> <<"msq_event_v1">>,
     created_at |-> created_at,
     event_type |-> event_type,
     ruleset_id |-> state.ruleset_id,
     state_id |-> state_id_and_bin(state, DEFAULT_N_BINS).id,
     bin_384 |-> state_id_and_bin(state, DEFAULT_N_BINS).bin]

DemoState ==
    [size |-> 2, target_sum |-> 5, ruleset_id |-> <<"RS-MSQ-0001">>,
     tiles |-> <<Some(1), None, Some(3), Some(4)>>,
     locks |-> <<FALSE, TRUE, FALSE, FALSE>>]

\* msq_telemetry.append_jsonl, lines 22-24: the sidecar lock is taken; the
\* call waits while another writer holds it.
TelemetryLock(i) ==
    /\ procs[i].pc = "start"
    /\ lock.events = None
    /\ lock' = [lock EXCEPT !.events = Some(i)]
    /\ \E now_iso \in Instants :
          procs' = [procs EXCEPT ![i] =
                       [@ EXCEPT !.pc = "locked",
                                 !.event = new_event(procs[i].event_type,
                                                     DemoState, now_iso)]]
    /\ UNCHANGED <<log, summary, events, effects>>
    /\ UNCHANGED driverVars

\* msq_telemetry.append_jsonl, line 25: the events log is opened, or the
\* open fails and the with-statement releases the lock.
TelemetryOpen(i) ==
    /\ procs[i].pc = "locked"
    /\ \/ /\ procs' = [procs EXCEPT ![i] = [@ EXCEPT !.pc = "appending"]]
          /\ UNCHANGED lock
       \/ /\ procs' = [procs EXCEPT ![i] = [@ EXCEPT !.pc = "raised"]]
          /\ lock' = [lock EXCEPT !.events = None]
    /\ UNCHANGED <<log, summary, events, effects>>
    /\ UNCHANGED driverVars

\* msq_telemetry.append_jsonl, line 26: the line reaches the file in one
\* write.
TelemetryWriteWhole(i) ==
    /\ procs[i].pc = "appending"
    /\ events' = Append(events, Chunk(i, procs[i].event, "whole"))
    /\ procs' = [procs EXCEPT ![i] = [@ EXCEPT !.pc = "written"]]
    /\ UNCHANGED <<log, summary, lock, effects>>
    /\ UNCHANGED driverVars

\* msq_telemetry.append_jsonl, line 26: the first of two writes of a line.
TelemetryWriteHead(i) ==
    /\ procs[i].pc = "appending"
    /\ events' = Append(events, Chunk(i, procs[i].event, "head"))
    /\ procs' = [procs EXCEPT ![i] = [@ EXCEPT !.pc = "appending_tail"]]
    /\ UNCHANGED <<log, summary, lock, effects>>
    /\ UNCHANGED driverVars

\* msq_telemetry.append_jsonl, line 26: the second of two writes of a line.
TelemetryWriteTail(i) ==
    /\ procs[i].pc = "appending_tail"
    /\ events' = Append(events, Chunk(i, procs[i].event, "tail"))
    /\ procs' = [procs EXCEPT ![i] = [@ EXCEPT !.pc = "written"]]
    /\ UNCHANGED <<log, summary, lock, effects>>
    /\ UNCHANGED driverVars

\* msq_telemetry.append_jsonl, line 24: the with-statement ends; the lock is
\* released; the writer goes on to its next event, if it has one.
TelemetryUnlock(i) ==
    /\ procs[i].pc = "written"
    /\ lock' = [lock EXCEPT !.events = None]
    /\ procs' = [procs EXCEPT ![i] =
                    IF @.event_type = "session_start"
                    THEN [@ EXCEPT !.pc = "start", !.event_type = "session_end"]
                    ELSE [@ EXCEPT !.pc = "done"]]
    /\ UNCHANGED <<log, summary, events, effects>>
    /\ UNCHANGED driverVars

\* msq_demo_run: each writer appends session_start, then session_end.
InitTelemetry ==
    /\ InitDriverIdle
    /\ procs = [i \in TelemetryProcs |->
                   [pc |-> "start", event_type |-> "session_start",
                    event |-> None]]
    /\ log = <<>>
    /\ summary = None
    /\ events = <<>>
    /\ lock = NoLocks
    /\ effects = [i \in TelemetryProcs |-> <<>>]

NextTelemetry ==
    \/ \E i \in DOMAIN procs : TelemetryLock(i)
    \/ \E i \in DOMAIN procs : TelemetryOpen(i)
    \/ \E i \in DOMAIN procs : TelemetryWriteWhole(i)
    \/ \E i \in DOMAIN procs : TelemetryWriteHead(i)
    \/ \E i \in DOMAIN procs : TelemetryWriteTail(i)
    \/ \E i \in DOMAIN procs : TelemetryUnlock(i)

SpecTelemetry == InitTelemetry /\ [][NextTelemetry]_vars

\* What the sidecar lock gives the events log: a writer appends only while
\* it holds the lock, no two appends overlap, and no line is split by
\* another writer's.
TelemetryAppendsSerialized ==
    /\ \A i \in DOMAIN procs :
          procs[i].pc \in {"appending", "appending_tail"} => lock.events = Some(i)
    /\ \A i, j \in DOMAIN procs :
          i # j => ~(/\ procs[i].pc \in {"appending", "appending_tail"}
                     /\ procs[j].pc \in {"appending", "appending_tail"})
    /\ \A k \in 1..(Len(events) - 1) :
          events[k].part = "head"
          => events[k + 1].part = "tail" /\ events[k + 1].writer = events[k].writer

(* ------------------------------ claims -------------------------------- *)

\* C1: for every canonical string and every bin count N > 0, the bucket
\* index route_bin returns, and the one state_id_and_bin returns for a
\* puzzle state, satisfies 0 <= bucket_index < N.
C1_BucketIndexInRange ==
    (/\ pc = "done"
     /\ call.fn \in {"route_bin", "state_id_and_bin"}
     /\ call.n_bins > 0)
    => /\ ret.raised = ""
       /\ 0 <= ret.bin
       /\ ret.bin < call.n_bins

\* A route to a bucket past the first of 384.
C1_Witness ==
    /\ pc = "done"
    /\ call.fn = "route_bin"
    /\ call.n_bins = DEFAULT_N_BINS
    /\ ret.bin > MaxBins

\* The payload sequence of a compute_run call is empty.
EmptyPayloads(c) ==
    \/ c.iter.kind = "list" /\ c.iter.items = <<>>
    \/ /\ c.iter.kind = "random"
       /\ c.iter.n = 0
       /\ Len(c.iter.alphabet) >= 3

\* C7: a run over an empty payload sequence, for any n_bins > 0, does not
\* raise and yields a record with N = 0, empty_bins = n_bins, entropy 0.0,
\* gini 0.0, max_load 0 and collision_bins 0.
C7_EmptyRun ==
    (/\ call.fn = "compute_run"
     /\ EmptyPayloads(call)
     /\ call.n_bins > 0
     /\ pc \in {"assembled", "done"})
    => /\ ret.raised = ""
       /\ ret.run.N = 0
       /\ ret.run.empty_bins = call.n_bins
       /\ ret.run.entropy = <<>>
       /\ ret.run.gini = [num |-> 0, den |-> 1]
       /\ ret.run.max_load = 0
       /\ ret.run.collision_bins = 0

\* An empty random run over more bins than the ranking keeps.
C7_Witness ==
    /\ call.fn = "compute_run"
    /\ pc = "assembled"
    /\ call.iter.kind = "random"
    /\ EmptyPayloads(call)
    /\ call.n_bins = DEFAULT_TOP_K + 1
    /\ ret.run.empty_bins = DEFAULT_TOP_K + 1

Min(a, b) == IF a < b THEN a ELSE b

\* `r`, a list of <<bucket, count>>, is the Top-K ranking of `cs`.
IsRanking(r, cs, K) ==
    /\ Len(r) = Min(K, VecLen(cs))
    /\ \A m \in 1..Len(r) : r[m][1] \in DOMAIN cs /\ r[m][2] = cs[r[m][1]]
    /\ \A m, q \in 1..Len(r) : m # q => r[m][1] # r[q][1]
    /\ \A m, q \in 1..Len(r) :
          m < q => \/ r[m][2] > r[q][2]
                   \/ r[m][2] = r[q][2] /\ r[m][1] < r[q][1]
    /\ \A m \in 1..Len(r) :
          \A b \in DOMAIN cs \ {r[q][1] : q \in 1..Len(r)} : r[m][2] >= cs[b]

TopBinPairs(top_bins) ==
    [m \in 1..Len(top_bins) |-> <<top_bins[m].bin, top_bins[m].count>>]

\* C8 as stated: for every occupancy vector and every K, ranked_bins lists
\* min(K, n_bins) distinct buckets by descending count, ties by ascending
\* index, each listed count >= each unlisted one; and top_bins of a record is
\* this ranking with K = 10 over the final occupancy vector.
C8_RankingEveryK ==
    /\ (pc = "done" /\ call.fn = "ranked_bins")
          => IsRanking(ret, call.counts, call.k)
    /\ (pc = "assembled" /\ call.fn = "compute_run")
          => IsRanking(TopBinPairs(ret.run.top_bins), counts, DEFAULT_TOP_K)

\* C8, amended: the same for every K >= 0.
C8_RankingNonNegativeK ==
    /\ (pc = "done" /\ call.fn = "ranked_bins" /\ call.k >= 0)
          => IsRanking(ret, call.counts, call.k)
    /\ (pc = "assembled" /\ call.fn = "compute_run")
          => IsRanking(TopBinPairs(ret.run.top_bins), counts, DEFAULT_TOP_K)

\* A record over 11 bins whose ranking is cut to 10, with tied buckets in it.
C8_Witness ==
    /\ pc = "assembled"
    /\ call.fn = "compute_run"
    /\ call.n_bins = DEFAULT_TOP_K + 1
    /\ n_units = MaxUnits
    /\ Len(ret.run.top_bins) = DEFAULT_TOP_K
    /\ ret.run.top_bins[1].bin > 0
    /\ ret.run.top_bins[2].count = ret.run.top_bins[3].count

\* C(n, 3)
Binomial3(n) == (n * (n - 1) * (n - 2)) \div 6

\* C9: in exhaustive mode over n distinct symbols exactly C(n,3) payloads are
\* generated, each 3-combination exactly once with its symbols in the
\* alphabet's order, and N of the record is C(n,3), the sum of the occupancy
\* vector.
C9_ExhaustiveCount ==
    /\ (pc = "done" /\ call.fn = "generate_exhaustive_triplets")
          => LET a == call.alphabet
                 n == Len(a)
             IN  /\ Len(ret) = Binomial3(n)
                 /\ \A i, j, k \in 1..n :
                       (i < j /\ j < k)
                       => Cardinality({m \in 1..Len(ret) :
                             ret[m] = a[i] \o <<"-">> \o a[j] \o <<"-">> \o a[k]})
                          = 1
    /\ (pc = "assembled" /\ call.fn = "compute_run"
            /\ call.mode = <<"exhaustive">>)
          => /\ ret.run.N = Binomial3(Len(call.alphabet))
             /\ Sum(counts) = Binomial3(Len(call.alphabet))

\* The run over an alphabet of four symbols, not in sorted order: N = 4.
C9_Witness ==
    /\ pc = "assembled"
    /\ call.fn = "compute_run"
    /\ call.mode = <<"exhaustive">>
    /\ Len(call.alphabet) = 4
    /\ call.alphabet[1] = <<"d">>
    /\ ret.run.N = 4

Permutations3(t) ==
    { <<t[1], t[2], t[3]>>, <<t[1], t[3], t[2]>>, <<t[2], t[1], t[3]>>,
      <<t[2], t[3], t[1]>>, <<t[3], t[1], t[2]>>, <<t[3], t[2], t[1]>> }

\* C10: for any three alphabet symbols drawn, each of the 6 draw orders
\* yields the payload this draw yielded, and so the same identifier and
\* bucket.
C10_DrawOrderInvariant ==
    (pc = "done" /\ call.fn = "generate_random_triplets")
    => \A other \in Permutations3(ret.draw) :
          LET payload == random_triplet(call.alphabet, other)
          IN  /\ payload = ret.payload
              /\ RoutePayload(call.dataset_id, payload, call.n_bins)
                    = ret.routed

\* A draw whose order is not the sorted one, from symbols that normalization
\* changes.
C10_Witness ==
    /\ pc = "done"
    /\ call.fn = "generate_random_triplets"
    /\ call.alphabet[1] = <<"c", " ">>
    /\ ret.payload # random_triplet_unsorted(call.alphabet, ret.draw)
    /\ ret.payload = <<"a", "-", "b", "-", "c">>

\* The invocation has the run log open for appending.
Appending(i) == procs[i].pc \in {"appending", "appending_tail"}

\* C3: appends of run records to the log are serialized as a lock on the
\* log's path serializes them: no two appends to the log overlap, and no
\* line is split by another appender's.
C3_AppendsSerialized ==
    /\ \A i, j \in DOMAIN procs : i # j => ~(Appending(i) /\ Appending(j))
    /\ \A k \in 1..(Len(log) - 1) :
          log[k].part = "head"
          => log[k + 1].part = "tail" /\ log[k + 1].writer = log[k].writer

\* The records of the complete lines invocation i has in the log, in order.
LogRecordsOf(i) ==
    LET mine == SelectSeq(log, LAMBDA c : c.writer = i /\ c.part \in {"whole", "tail"})
    IN  [k \in 1..Len(mine) |-> mine[k].rec]

\* Invocation i has changed neither the log nor the snapshot.
Untouched(i) ==
    /\ effects[i] = <<>>
    /\ \A k \in 1..Len(log) : log[k].writer # i
    /\ summary # None => summary[1].writer # i

\* C4: in every terminal state of an invocation, either every record it
\* computed is in the log and the snapshot holds the last of them, or it
\* changed neither the log nor the snapshot.
C4_AllOrNothing ==
    \A i \in DOMAIN procs :
        procs[i].pc = "exited"
        => \/ Untouched(i)
           \/ /\ procs[i].computed # <<>>
              /\ LogRecordsOf(i) = procs[i].computed
              /\ summary = Some([writer |-> i,
                                 rec |-> procs[i].computed[Len(procs[i].computed)],
                                 torn |-> FALSE])

\* C5: an invocation that exits 0 has appended each record it computed, in
\* order, and then written the last of them as the snapshot; and whenever an
\* invocation writes the snapshot, its previous file write was the append of
\* that record.
C5_AppendThenSnapshot ==
    \A i \in DOMAIN procs :
        LET p == procs[i]
            e == effects[i]
            n == Len(p.computed)
        IN  /\ (p.pc = "exited" /\ p.exit[1].status = 0)
               => /\ n > 0
                  /\ LogRecordsOf(i) = p.computed
                  /\ summary = Some([writer |-> i, rec |-> p.computed[n],
                                     torn |-> FALSE])
                  /\ e = [k \in 1..(n + 1) |->
                            IF k <= n THEN [op |-> "append", rec |-> p.computed[k]]
                            ELSE [op |-> "write", rec |-> p.computed[n]]]
            /\ \A k \in 1..Len(e) :
                  e[k].op \in {"write", "torn"}
                  => /\ k > 1
                     /\ e[k - 1] = [op |-> "append", rec |-> e[k].rec]
                     /\ e[k].rec = LogRecordsOf(i)[Len(LogRecordsOf(i))]

\* A random invocation of two runs has exited 0; the snapshot is its second
\* record.
C5_Witness ==
    \E i \in DOMAIN procs :
        /\ procs[i].pc = "exited"
        /\ procs[i].exit[1].status = 0
        /\ procs[i].args.mode = <<"random">>
        /\ Len(procs[i].computed) = 2
        /\ Len(log) = 3
        /\ summary[1].rec = procs[i].computed[2]
        /\ summary[1].rec # procs[i].computed[1]

\* The command line has one of the three configuration errors.
ConfigError(a) ==
    \/ a.n_bins <= 0
    \/ a.mode = <<"random">> /\ a.runs <= 0
    \/ a.mode = <<"file">> /\ strip(a.dataset_id) = <<>>

\* C6: an invocation with a configuration error computes no run, writes
\* neither the log nor the snapshot, and exits with a non-zero status.
C6_ConfigErrorWritesNothing ==
    \A i \in DOMAIN procs :
        ConfigError(procs[i].args)
        => /\ procs[i].pc \in {"enter", "exited"}
           /\ procs[i].computed = <<>>
           /\ Untouched(i)
           /\ procs[i].pc = "exited" => procs[i].exit[1].status # 0

\* File mode with a blank dataset id has exited 2; the files an earlier
\* invocation left are as they were.
C6_Witness ==
    \E i \in DOMAIN procs :
        /\ procs[i].pc = "exited"
        /\ procs[i].args.mode = <<"file">>
        /\ procs[i].args.dataset_id = <<" ">>
        /\ procs[i].args.n_bins > 0
        /\ procs[i].exit[1] = Exit(2, "")
        /\ Len(log) = 1
        /\ summary # None

\* All entries of the vector are equal.
IsUniform(cs) == \A i, j \in DOMAIN cs : cs[i] = cs[j]

\* C11: the Gini coefficient of every uniform occupancy vector of at least
\* two bins is 0: gini_coefficient returns a fraction whose numerator is 0
\* and whose denominator is not, for every length and every common value.
C11_UniformGiniZero ==
    (/\ pc = "done"
     /\ call.fn = "gini_coefficient"
     /\ VecLen(call.counts) >= 2
     /\ IsUniform(call.counts))
    => (ret.num = 0 /\ ret.den # 0)

\* A vector of the shape of the repository's test, [3] * n, went through the
\* closed form: the denominator is n * total.
C11_Witness ==
    /\ pc = "done"
    /\ call.fn = "gini_coefficient"
    /\ VecLen(call.counts) = MaxUniformBins
    /\ IsUniform(call.counts)
    /\ call.counts[0] = 3
    /\ ret = [num |-> 0, den |-> MaxUniformBins * MaxUniformBins * 3]

\* compute_run is inside its loop or has just assembled its record: its
\* locals are live.
Streaming == pc \in {"loop", "assembled"}

\* members.get(b, []): the sample members of bucket b.
MembersOf(ms, b) == IF b \in DOMAIN ms THEN ms[b] ELSE <<>>

\* The identifiers of the units routed to bucket b, in arrival order.
ArrivedAt(b) ==
    LET at == SelectSeq(arrivals, LAMBDA a : a.bin = b)
    IN  [k \in 1..Len(at) |-> at[k].id]

\* The unit of this step arrives at a bucket whose member list is at the cap.
ArrivesAtCap(b) ==
    /\ pc = "loop"
    /\ Len(arrivals') = Len(arrivals) + 1
    /\ arrivals'[Len(arrivals')].bin = b
    /\ Len(MembersOf(members, b)) = call.top_member_limit

\* C12: after any sequence of routed units, every bucket's sample-member
\* list holds exactly min(count of the bucket, cap) identifiers, those of
\* the first units routed to the bucket in arrival order; and a unit that
\* arrives at a bucket whose list is at the cap increments the count and
\* leaves the member list unchanged.
C12_MembersCapped ==
    /\ [](Streaming =>
            /\ DOMAIN members \subseteq DOMAIN counts
            /\ \A b \in DOMAIN counts :
                 /\ Len(MembersOf(members, b))
                      = Min(counts[b], call.top_member_limit)
                 /\ MembersOf(members, b)
                      = SubSeq(ArrivedAt(b), 1,
                               Min(counts[b], call.top_member_limit)))
    /\ [][\A b \in DOMAIN counts :
             ArrivesAtCap(b) => /\ counts'[b] = counts[b] + 1
                                /\ MembersOf(members', b) = MembersOf(members, b)]_vars

\* Two units with different identifiers went to one bucket under a cap of 1:
\* the bucket counts both and keeps the first.
C12_Witness ==
    /\ Streaming
    /\ call.top_member_limit = 1
    /\ Len(arrivals) = 2
    /\ arrivals[1].bin = arrivals[2].bin
    /\ arrivals[1].id # arrivals[2].id
    /\ counts[arrivals[1].bin] = 2
    /\ members[arrivals[1].bin] = <<arrivals[1].id>>

\* This step of the loop processes one unit, routed to bucket b.
Processes(b) ==
    /\ pc = "loop"
    /\ Len(arrivals') = Len(arrivals) + 1
    /\ arrivals'[Len(arrivals')].bin = b

\* C13: while compute_run streams units the occupancy vector keeps length
\* n_bins and its sum is the number of units processed so far; each
\* processed unit increments exactly one bucket by 1 and leaves the others
\* unchanged, and no count decreases; and in the record assembled from the
\* final vector N is the sum of the counts, max_load <= N, and empty_bins
\* plus the number of buckets holding a unit is n_bins.
C13_OccupancyAccounting ==
    /\ [](Streaming =>
            /\ VecLen(counts) = call.n_bins
            /\ DOMAIN counts = 0..(call.n_bins - 1)
            /\ Sum(counts) = Len(arrivals)
            /\ n_units = Len(arrivals))
    /\ [][(Streaming /\ Streaming') =>
            /\ \A i \in DOMAIN counts : counts'[i] >= counts[i]
            /\ \A b \in DOMAIN counts :
                 Processes(b) => counts' = [counts EXCEPT ![b] = @ + 1]
            /\ Len(arrivals') = Len(arrivals) => counts' = counts]_vars
    /\ [](pc = "assembled" =>
            /\ ret.run.N = Sum(counts)
            /\ ret.run.N = Len(arrivals)
            /\ ret.run.max_load <= ret.run.N
            /\ ret.run.empty_bins
                  + Cardinality({i \in DOMAIN counts : counts[i] >= 1})
                  = ret.run.n_bins
            /\ ret.run.bin_counts \in {None, Some(counts)})

\* A record was assembled after MaxUnits units were streamed into more than
\* one bucket, leaving a bucket empty.
C13_Witness ==
    /\ pc = "assembled"
    /\ Len(arrivals) = MaxUnits
    /\ arrivals[1].bin # arrivals[2].bin
    /\ ret.run.N = MaxUnits
    /\ ret.run.empty_bins >= 1
    /\ ret.run.bin_counts = Some(counts)

====
